---- MODULE Spec2Model ----
(***************************************************************************)
(* RouteLightsBehavior (srunner/scenariomanager/lights_sim.py): a          *)
(* behaviour-tree node that switches street lights and vehicle lights     *)
(* around the tracked (ego) actor according to the weather.               *)
(*                                                                         *)
(* The world (weather, actor locations, speed) belongs to the simulator;  *)
(* update reads it fresh, so each Update step draws what it reads and     *)
(* records it in the world variables.  Locations are points on a line    *)
(* and distance is the absolute difference.  SpecClassify exercises the   *)
(* night-mode classifier alone, on a grid of weather snapshots.           *)
(***************************************************************************)
EXTENDS Integers, Sequences, FiniteSets

\* ------------------------------------------------------------ bounds
NumLights == 2
NumVehicles == 2

\* ------------------------------------------------- program constants
SUN_ALTITUDE_THRESHOLD_1 == 15
SUN_ALTITUDE_THRESHOLD_2 == 165
CLOUDINESS_THRESHOLD == 95
FOG_THRESHOLD == 40
\* constructor default of the activation radius
Radius == 50
\* speed multiplier of the look-ahead radius
SpeedFactor == 5
\* carla.VehicleLightState.Position and .LowBeam
Position == 1
LowBeam == 2

\* ------------------------------------------------------------- world
Lights == 1..NumLights
\* vehicle 0 is the tracked (ego) actor
Ego == 0
Vehicles == 0..NumVehicles

Positions == {0, 100}
NoLocation == <<>>
Locations == {NoLocation} \cup {<<p>> : p \in Positions}
Speeds == {0, 20}
VehicleLocations == [Vehicles -> Positions]

\* static lights stand 100 apart along the route
LightLocation(l) == 100 * (l - 1)

\* weather snapshots the scenario passes through: clear noon, sun on the
\* first threshold, overcast, dense fog
Weathers ==
  { [sun_altitude_angle |-> 90, cloudiness |-> 0, fog_density |-> 0],
    [sun_altitude_angle |-> 15, cloudiness |-> 0, fog_density |-> 0],
    [sun_altitude_angle |-> 90, cloudiness |-> 95, fog_density |-> 0],
    [sun_altitude_angle |-> 90, cloudiness |-> 0, fog_density |-> 40] }

\* the grid of snapshots the classifier is exercised on
WeatherGrid ==
  [ sun_altitude_angle : {-90, 14, 15, 16, 90, 164, 165, 166},
    cloudiness : {0, 94, 95, 100},
    fog_density : {0, 39, 40, 100} ]

\* other bits of a light-state mask (HighBeam, Brake)
OtherLightBits == {4, 8}

\* light state the vehicles are spawned with
InitLightState(v) == (5 * v + 4) % 16

\* role_name attribute of the vehicles other than the ego
RoleOf(v) == IF v % 2 = 1 THEN "scenario" ELSE "autopilot"

Statuses == {"SUCCESS", "FAILURE", "INVALID"}

VARIABLES
  phase,            \* lifecycle of the node: "active" or "terminated"
  day_night_cycle,  \* light manager: automatic day/night cycle enabled
  prev_night_mode,  \* self._prev_night_mode
  weather, location, ego_speed, veh_location,   \* world read by the last update
  role_name,        \* vehicle attribute role_name
  light_on,         \* is_on of every static light
  light_state,      \* light-state mask of every vehicle
  night_mode,       \* night_mode of the last update that computed one
  op,               \* last call on the node: "init", "update", "terminate"
  branch,           \* path the last update took
  prev_branch,      \* path the update before it took
  status,           \* status the last update returned
  calls,            \* light-manager calls of the last update, in order
  writes,           \* set_light_state calls of the last update, per vehicle
  stopped_by        \* who called terminate: "none", "host" or "self"

vars == << phase, day_night_cycle, prev_night_mode, weather, location,
           ego_speed, veh_location, role_name, light_on, light_state,
           night_mode, op, branch, prev_branch, status, calls, writes,
           stopped_by >>

\* ----------------------------------------------------------- helpers
Max(a, b) == IF a >= b THEN a ELSE b
Abs(x) == IF x < 0 THEN -x ELSE x
distance(a, b) == Abs(a - b)

RECURSIVE BitAnd(_, _)
BitAnd(a, b) ==
  IF a = 0 \/ b = 0 THEN 0
  ELSE (a % 2) * (b % 2) + 2 * BitAnd(a \div 2, b \div 2)
BitOr(a, b) == a + b - BitAnd(a, b)
\* a & ~m on non-negative masks
BitAndNot(a, m) == a - BitAnd(a, m)

_vehicle_lights == BitOr(Position, LowBeam)

\* ------------------------------------------------------- the program
\* mutant: the first sun threshold taken as exclusive
_get_night_mode_exclusive(w) ==
  IF w.sun_altitude_angle < SUN_ALTITUDE_THRESHOLD_1
       \/ w.sun_altitude_angle >= SUN_ALTITUDE_THRESHOLD_2
  THEN TRUE
  ELSE IF w.cloudiness >= CLOUDINESS_THRESHOLD THEN TRUE
  ELSE IF w.fog_density >= FOG_THRESHOLD THEN TRUE
  ELSE FALSE

_get_night_mode(w) ==
  IF w.sun_altitude_angle <= SUN_ALTITUDE_THRESHOLD_1
       \/ w.sun_altitude_angle >= SUN_ALTITUDE_THRESHOLD_2
  THEN TRUE
  ELSE IF w.cloudiness >= CLOUDINESS_THRESHOLD THEN TRUE
  ELSE IF w.fog_density >= FOG_THRESHOLD THEN TRUE
  ELSE FALSE

\* mutant: the light-off is not tied to the previous night mode
update_branch_no_edge(loc, nm, prev) ==
  IF loc = NoLocation THEN "skip"
  ELSE IF nm THEN "night"
  ELSE "all_off"

\* which path update takes
update_branch(loc, nm, prev) ==
  IF loc = NoLocation THEN "skip"
  ELSE IF nm THEN "night"
  ELSE IF prev THEN "all_off"
  ELSE "day"

\* mutant: a tick without a location clears the flag
new_prev_night_mode_cleared(loc, nm, prev) ==
  IF loc = NoLocation THEN FALSE ELSE nm

\* self._prev_night_mode after update
new_prev_night_mode(loc, nm, prev) ==
  IF loc = NoLocation THEN prev ELSE nm

\* mutant: a missing location reported as a failure
update_status_skip_fails(br) == IF br = "skip" THEN "FAILURE" ELSE "RUNNING"

\* mutant: the node reports success once the lights are off
update_status_done(br) == IF br = "all_off" THEN "SUCCESS" ELSE "RUNNING"

update_status(br) == "RUNNING"

effective_radius(speed) == Max(Radius, SpeedFactor * speed)

\* mutant: a light exactly on the radius counted as beyond it
beyond_inclusive(d, radius) == d >= radius

beyond(d, radius) == d > radius

\* mutant: every light within the radius is marked, lit or not
on_lights_unfiltered(x, radius, is_on) ==
  { l \in Lights : ~beyond(distance(LightLocation(l), x), radius) }

on_lights(x, radius, is_on) ==
  { l \in Lights : ~beyond(distance(LightLocation(l), x), radius) /\ ~is_on[l] }

off_lights(x, radius, is_on) ==
  { l \in Lights : beyond(distance(LightLocation(l), x), radius) /\ is_on[l] }

\* mutant: the filter on is_on inverted
all_off_lights_inverted(is_on) == { l \in Lights : ~is_on[l] }

all_off_lights(is_on) == { l \in Lights : is_on[l] }

close_calls(x, radius, is_on) ==
  << [fn |-> "turn_on", lights |-> on_lights(x, radius, is_on)],
     [fn |-> "turn_off", lights |-> off_lights(x, radius, is_on)] >>

all_off_calls(is_on) ==
  << [fn |-> "turn_off", lights |-> all_off_lights(is_on)] >>

\* the light manager carries the calls out in order
RECURSIVE LightManagerApply(_, _)
LightManagerApply(is_on, cs) ==
  IF cs = <<>> THEN is_on
  ELSE LightManagerApply(
         [l \in Lights |->
            IF l \in Head(cs).lights THEN Head(cs).fn = "turn_on" ELSE is_on[l]],
         Tail(cs))

scenario_vehicles(roles) == { v \in Vehicles : roles[v] = "scenario" }

\* mutant: the ego vehicle is left to the loop over the scenario vehicles
close_vehicle_lights_loop_only(x, radius, vl, roles, ls) ==
  [v \in Vehicles |->
     IF roles[v] = "scenario"
     THEN IF beyond(distance(vl[v], x), radius)
          THEN BitAndNot(ls[v], _vehicle_lights)
          ELSE BitOr(ls[v], _vehicle_lights)
     ELSE ls[v]]

\* the loop over the scenario vehicles, then the ego vehicle
close_vehicle_lights(x, radius, vl, roles, ls) ==
  LET looped == [v \in Vehicles |->
                   IF v \in scenario_vehicles(roles)
                   THEN IF beyond(distance(vl[v], x), radius)
                        THEN BitAndNot(ls[v], _vehicle_lights)
                        ELSE BitOr(ls[v], _vehicle_lights)
                   ELSE ls[v]]
  IN [looped EXCEPT ![Ego] = BitOr(looped[Ego], _vehicle_lights)]

all_vehicle_lights_off(roles, ls) ==
  LET looped == [v \in Vehicles |->
                   IF v \in scenario_vehicles(roles)
                   THEN BitAndNot(ls[v], _vehicle_lights)
                   ELSE ls[v]]
  IN [looped EXCEPT ![Ego] = BitAndNot(looped[Ego], _vehicle_lights)]

\* number of set_light_state calls on each vehicle in either routine
light_state_writes(roles) ==
  [v \in Vehicles |->
     (IF v \in scenario_vehicles(roles) THEN 1 ELSE 0) + (IF v = Ego THEN 1 ELSE 0)]

NoWrites == [v \in Vehicles |-> 0]

\* mutant: terminate leaves the automatic cycle disabled
TerminateKeepsManual == FALSE

\* set_day_night_cycle arguments of __init__ and terminate
InitDayNightCycle == FALSE
TerminateDayNightCycle == TRUE

\* the host's tick stops a node whose update returns a terminal status
TickStops(st) == st # "RUNNING"

\* the host ticks a node only until it is terminated
MayTick == phase = "active"

Init ==
  /\ phase = "active"
  /\ day_night_cycle = InitDayNightCycle
  /\ prev_night_mode = FALSE
  /\ weather = [sun_altitude_angle |-> 90, cloudiness |-> 0, fog_density |-> 0]
  /\ location = NoLocation
  /\ ego_speed = 0
  /\ veh_location = [v \in Vehicles |-> 0]
  /\ role_name \in { [v \in Vehicles |-> IF v = Ego THEN r ELSE RoleOf(v)] :
                       r \in {"hero", "scenario"} }
  /\ light_on \in [Lights -> BOOLEAN]
  /\ light_state = [v \in Vehicles |-> InitLightState(v)]
  /\ night_mode = FALSE
  /\ op = "init"
  /\ branch = "none"
  /\ prev_branch = "none"
  /\ status = "NONE"
  /\ calls = <<>>
  /\ writes = NoWrites
  /\ stopped_by = "none"

\* one update on the world snapshot (w, loc, sp, vl)
UpdateWith(w, loc, sp, vl) ==
  LET nm == _get_night_mode(w)
      br == update_branch(loc, nm, prev_night_mode)
      radius == effective_radius(sp)
      cs == IF br = "night" THEN close_calls(loc[1], radius, light_on)
            ELSE IF br = "all_off" THEN all_off_calls(light_on)
            ELSE <<>>
      st == update_status(br)
  IN /\ weather' = w
     /\ location' = loc
     /\ ego_speed' = sp
     /\ veh_location' = vl
     /\ night_mode' = IF loc = NoLocation THEN night_mode ELSE nm
     /\ op' = "update"
     /\ branch' = br
     /\ prev_branch' = branch
     /\ calls' = cs
     /\ light_on' = LightManagerApply(light_on, cs)
     /\ light_state' =
          IF br = "night"
          THEN close_vehicle_lights(loc[1], radius, vl, role_name, light_state)
          ELSE IF br = "all_off"
          THEN all_vehicle_lights_off(role_name, light_state)
          ELSE light_state
     /\ writes' = IF br \in {"night", "all_off"}
                  THEN light_state_writes(role_name) ELSE NoWrites
     /\ prev_night_mode' = new_prev_night_mode(loc, nm, prev_night_mode)
     /\ status' = st
     /\ IF TickStops(st)
        THEN /\ phase' = "terminated"
             /\ day_night_cycle' = TerminateDayNightCycle
             /\ stopped_by' = "self"
        ELSE UNCHANGED << phase, day_night_cycle, stopped_by >>
     /\ UNCHANGED role_name

\* vehicle locations after reading those of the scenario vehicles afresh
VehicleLocationsRead(roles, cur) ==
  { vl \in VehicleLocations :
      \A v \in Vehicles \ scenario_vehicles(roles) : vl[v] = cur[v] }

\* The location and the weather of the world are drawn at every update.  The
\* speed and the locations of the scenario vehicles are read at night only,
\* and the world variables keep them as they were last read.
Update ==
  /\ MayTick
  /\ \E loc \in Locations, w \in Weathers :
       IF loc # NoLocation /\ _get_night_mode(w)
       THEN \E sp \in Speeds, vl \in VehicleLocationsRead(role_name, veh_location) :
              UpdateWith(w, loc, sp, vl)
       ELSE UpdateWith(w, loc, ego_speed, veh_location)

Terminate ==
  \E new_status \in Statuses :
    /\ phase' = "terminated"
    /\ day_night_cycle' = TerminateDayNightCycle
    /\ stopped_by' = IF stopped_by = "none" THEN "host" ELSE stopped_by
    /\ op' = "terminate"
    /\ branch' = "none"
    /\ prev_branch' = "none"
    /\ status' = "NONE"
    /\ calls' = <<>>
    /\ writes' = NoWrites
    /\ UNCHANGED << prev_night_mode, weather, location, ego_speed, veh_location,
                    role_name, light_on, light_state, night_mode >>

\* _get_night_mode on its own, over the grid of weather snapshots
Classify ==
  \E w \in WeatherGrid :
    /\ weather' = w
    /\ night_mode' = _get_night_mode(w)
    /\ UNCHANGED << phase, day_night_cycle, prev_night_mode, location, ego_speed,
                    veh_location, role_name, light_on, light_state, op, branch,
                    prev_branch, status, calls, writes, stopped_by >>

Next == Update \/ Terminate

Spec == Init /\ [][Next]_vars

NextClassify == Classify

SpecClassify == Init /\ [][NextClassify]_vars

\* ------------------------------------------------------------ claims
HasBit(m, b) == (m \div b) % 2 = 1
Within(p, x, speed) == Abs(p - x) <= Max(Radius, 5 * speed)
LocatedUpdate == op = "update" /\ location # NoLocation
NightUpdate == LocatedUpdate /\ night_mode
TurnOns(cs) == { i \in DOMAIN cs : cs[i].fn = "turn_on" }
TurnOffs(cs) == { i \in DOMAIN cs : cs[i].fn = "turn_off" }

\* C1: _get_night_mode returns night iff sun altitude <= 15, or sun
\* altitude >= 165, or cloudiness >= 95, or fog density >= 40.
C1_NightIffThreshold ==
  night_mode <=> \/ weather.sun_altitude_angle <= 15
                 \/ weather.sun_altitude_angle >= 165
                 \/ weather.cloudiness >= 95
                 \/ weather.fog_density >= 40

\* the boundary 165 alone makes it night; just inside every threshold is day
C1_Witness ==
  /\ weather = [sun_altitude_angle |-> 165, cloudiness |-> 0, fog_density |-> 0]
  /\ night_mode

\* C2: an update without a location returns RUNNING, issues no light-manager
\* call, writes no vehicle light state, changes no light and leaves
\* _prev_night_mode (and the day/night cycle) as they were.
C2_MissingLocationSkips ==
  [][ (op' = "update" /\ location' = NoLocation) =>
        /\ status' = "RUNNING"
        /\ calls' = <<>>
        /\ writes' = NoWrites
        /\ light_on' = light_on
        /\ light_state' = light_state
        /\ prev_night_mode' = prev_night_mode
        /\ day_night_cycle' = day_night_cycle ]_vars

\* a skipped tick while the flag is set, lights are on and the weather is day
C2_Witness ==
  /\ op = "update" /\ location = NoLocation
  /\ prev_night_mode
  /\ ~_get_night_mode(weather)
  /\ \E l \in Lights : light_on[l]

\* C3: an update performs the global light-off iff it has a location,
\* classifies day and _prev_night_mode was set; an update that classifies
\* day with the flag clear issues no call, writes no light state and
\* changes nothing.
C3_AllOffOnlyOnEdge ==
  [][ op' = "update" =>
        /\ (branch' = "all_off") <=>
             (location' # NoLocation /\ ~night_mode' /\ prev_night_mode)
        /\ (branch' = "all_off") <=>
             (TurnOffs(calls') # {} /\ TurnOns(calls') = {})
        /\ (location' # NoLocation /\ ~night_mode' /\ ~prev_night_mode) =>
             /\ calls' = <<>>
             /\ writes' = NoWrites
             /\ light_on' = light_on
             /\ light_state' = light_state ]_vars

\* a steady day tick right after the tick that left night mode
C3_Witness ==
  /\ LocatedUpdate /\ ~night_mode
  /\ branch = "day" /\ prev_branch = "all_off"
  /\ calls = <<>>

\* C4: after an update with a location that classifies night, a static
\* light is on iff its distance to the tracked location is at most
\* max(base radius, 5 x speed).
C4_NightPartition ==
  NightUpdate =>
    \A l \in Lights :
      light_on[l] <=> Within(LightLocation(l), location[1], ego_speed)

\* a steady night tick after the actor moved: some lights were switched on
\* and others off by the same update
C4_Witness ==
  /\ NightUpdate /\ prev_branch = "night"
  /\ \E i \in TurnOns(calls) : calls[i].lights # {}
  /\ \E i \in TurnOffs(calls) : calls[i].lights # {}

\* C5: after the update that leaves night mode no static light is on, and
\* Position and LowBeam are clear on every scenario vehicle and on the ego.
C5_AllOff ==
  [][ (op' = "update" /\ location' # NoLocation /\ ~night_mode'
         /\ prev_night_mode) =>
        /\ \A l \in Lights : ~light_on'[l]
        /\ \A v \in scenario_vehicles(role_name) \cup {Ego} :
             ~HasBit(light_state'[v], 1) /\ ~HasBit(light_state'[v], 2) ]_vars

\* the light-off switched off a light within the radius of the actor and a
\* scenario vehicle keeps only its other bits
C5_Witness ==
  /\ LocatedUpdate /\ branch = "all_off"
  /\ \E i \in TurnOffs(calls) : \E l \in calls[i].lights :
       Within(LightLocation(l), location[1], ego_speed)
  /\ \E v \in scenario_vehicles(role_name) \ {Ego} : light_state[v] = 8

\* C6: after a night update a scenario vehicle other than the ego has
\* Position and LowBeam set if within the radius and clear if beyond, the
\* ego has both set, every other bit of those masks is as before, and the
\* remaining vehicles are not written.
C6_NightVehicleLights ==
  [][ (op' = "update" /\ location' # NoLocation /\ night_mode') =>
        /\ \A v \in scenario_vehicles(role_name) \ {Ego} :
             IF Within(veh_location'[v], location'[1], ego_speed')
             THEN HasBit(light_state'[v], 1) /\ HasBit(light_state'[v], 2)
             ELSE ~HasBit(light_state'[v], 1) /\ ~HasBit(light_state'[v], 2)
        /\ HasBit(light_state'[Ego], 1) /\ HasBit(light_state'[Ego], 2)
        /\ \A v \in Vehicles : \A b \in OtherLightBits :
             HasBit(light_state'[v], b) <=> HasBit(light_state[v], b)
        /\ \A v \in Vehicles \ (scenario_vehicles(role_name) \cup {Ego}) :
             light_state'[v] = light_state[v] /\ writes'[v] = 0 ]_vars

\* the ego is tagged "scenario" and reported beyond the radius, a scenario
\* vehicle beyond the radius lost both bits and kept another one
C6_Witness ==
  /\ NightUpdate
  /\ role_name[Ego] = "scenario"
  /\ ~Within(veh_location[Ego], location[1], ego_speed)
  /\ light_state[Ego] = 7
  /\ \E v \in scenario_vehicles(role_name) \ {Ego} :
       /\ ~Within(veh_location[v], location[1], ego_speed)
       /\ light_state[v] = 8
  /\ \E v \in Vehicles \ (scenario_vehicles(role_name) \cup {Ego}) :
       light_state[v] = InitLightState(v)

\* C7: construction disables the automatic day/night cycle and clears
\* _prev_night_mode, every update runs with the cycle disabled and leaves
\* it disabled, every terminate enables it, and the cycle is disabled as
\* long as the node is active.
C7_ManualControl ==
  /\ (~day_night_cycle /\ ~prev_night_mode)
  /\ [][ /\ op' = "update" => (~day_night_cycle /\ ~day_night_cycle')
         /\ op' = "terminate" => day_night_cycle' ]_vars
  /\ [](phase = "active" => ~day_night_cycle)

\* the host terminated the node after a night tick
C7_Witness ==
  /\ op = "terminate" /\ phase = "terminated"
  /\ day_night_cycle
  /\ prev_night_mode

\* C8: a night update issues one turn_on call with exactly the lights within
\* the radius that were off and one turn_off call with exactly the lights
\* beyond it that were on; the global light-off issues one turn_off call
\* and no turn_on call.
C8_Batches ==
  [][ op' = "update" =>
        /\ (location' # NoLocation /\ night_mode') =>
             /\ Len(calls') = 2
             /\ \E i \in DOMAIN calls' : TurnOns(calls') = {i} /\
                  calls'[i].lights =
                    { l \in Lights : ~light_on[l] /\
                        Within(LightLocation(l), location'[1], ego_speed') }
             /\ \E i \in DOMAIN calls' : TurnOffs(calls') = {i} /\
                  calls'[i].lights =
                    { l \in Lights : light_on[l] /\
                        ~Within(LightLocation(l), location'[1], ego_speed') }
        /\ (location' # NoLocation /\ ~night_mode' /\ prev_night_mode) =>
             /\ Len(calls') = 1
             /\ TurnOns(calls') = {}
             /\ Cardinality(TurnOffs(calls')) = 1 ]_vars

\* a steady night tick with nothing to change: a light within the radius is
\* on, a light beyond it is off, and both batches are empty
C8_Witness ==
  /\ NightUpdate /\ prev_branch = "night"
  /\ Len(calls) = 2
  /\ \A i \in DOMAIN calls : calls[i].lights = {}
  /\ \E l \in Lights : light_on[l]
  /\ \E l \in Lights : ~light_on[l]

\* C9: _prev_night_mode is the classification of the most recent update
\* that had a location (false before any); an update with a location that
\* classifies day while that classification is night performs the global
\* light-off, however many updates without a location came in between.
C9_FlagTracksLastLocated ==
  /\ [](prev_night_mode = night_mode)
  /\ [][ (op' = "update" /\ location' # NoLocation /\ ~night_mode'
            /\ night_mode) =>
           /\ branch' = "all_off"
           /\ \A l \in Lights : ~light_on'[l] ]_vars

\* the light-off is performed right after a tick without a location
C9_Witness ==
  /\ LocatedUpdate /\ branch = "all_off"
  /\ prev_branch = "skip"
  /\ \E i \in TurnOffs(calls) : calls[i].lights # {}

\* C10: every update returns RUNNING, so the tick never stops the node by
\* itself: terminate, and with it the return of the automatic day/night
\* cycle, comes from the host only.
C10_AlwaysRunning ==
  /\ op = "update" => (status = "RUNNING" /\ phase = "active")
  /\ stopped_by # "self"
  /\ day_night_cycle => stopped_by = "host"

\* the tick that leaves night mode returned RUNNING and the node is active
C10_Witness ==
  /\ op = "update" /\ branch = "all_off"
  /\ status = "RUNNING" /\ phase = "active"

====
